---- MODULE Spec2Model ----
(***************************************************************************)
(* A model of the RAG chat service: the API layer (app/backend/api.py),    *)
(* the ingestion and answer pipelines (app/backend/rag.py), the datastore  *)
(* connector (app/backend/db.py) and the chat client                       *)
(* (app/frontend/ui.py).                                                   *)
(*                                                                         *)
(* The upload directory and the embedding collection are shared by every   *)
(* request handler; the collection lives in a remote datastore.  A handler *)
(* is modelled as a sequence of steps, one per access to that shared       *)
(* state, and the steps of different requests interleave freely: nothing   *)
(* in the code takes a lock, and the application object can be served by   *)
(* several worker processes over the same directory and datastore.         *)
(*                                                                         *)
(* The external collaborators (PDF parser, embedding and completion        *)
(* providers, vector index) are the environment: each call either fails    *)
(* with an exception or returns.  An embedding is abstracted to a small    *)
(* integer "vec"; similarity is the distance between two of them, and the  *)
(* index answers a query as a function of its contents.                    *)
(***************************************************************************)
EXTENDS Integers, Sequences, FiniteSets, TLC

VARIABLES
    mongo_uri,    \* whether MONGO_URI is set in the process configuration
    files,        \* the upload directory DATA_DIR: path -> content or Absent
    collection,   \* rag_db.embeddings, in insertion order
    req,          \* the HTTP requests, by arrival number
    nreq,         \* number of requests that have arrived
    ui,           \* the chat client's script position
    messages      \* st.session_state.messages

vars == <<mongo_uri, files, collection, req, nreq, ui, messages>>

----------------------------------------------------------------------------
(* Bounds of the model *)

MaxReq == 2
MaxTurns == 2

(* Program constants *)

chunk_size == 1000
chunk_overlap == 200
K == 3

DATA_DIR == "data"
USER_INPUT == "User Input"

Reqs == 1..MaxReq

----------------------------------------------------------------------------
(* Inputs *)

\* File names are sequences of characters, so that endswith is computed.
PDF_SUFFIX == <<".", "p", "d", "f">>

FileNames ==
    { <<"a", ".", "p", "d", "f">>,
      <<"a", ".", "t", "x", "t">>,
      <<"p", "d", "f">> }

\* An uploaded body: whether the PDF parser accepts it, the length of the
\* text of each page, and the embedding of its text.
Bodies ==
    { [valid |-> TRUE,  pages |-> <<0, 1900>>, vec |-> 1],
      [valid |-> FALSE, pages |-> <<>>,        vec |-> 1] }

\* The uploads clients post: a file name and a body.
Uploads ==
    { u \in FileNames \X Bodies : Len(u[1]) = 5 \/ ~u[2].valid }

\* A text posted to /upload/text: its length and its embedding.
Texts ==
    { [len |-> 0,   vec |-> 1],
      [len |-> 900, vec |-> 1] }

\* A chat query: the question and its embedding.
Queries ==
    { [text |-> "q1", vec |-> 1],
      [text |-> "q2", vec |-> 2] }

NoBody == [valid |-> FALSE, pages |-> <<>>, vec |-> 0]
NoQuery == [text |-> "", vec |-> 0]

----------------------------------------------------------------------------
(* Pure functions *)

Min(a, b) == IF a < b THEN a ELSE b

Abs(a) == IF a < 0 THEN 0 - a ELSE a

\* str.endswith
EndsWith(s, suffix) ==
    /\ Len(s) >= Len(suffix)
    /\ SubSeq(s, Len(s) - Len(suffix) + 1, Len(s)) = suffix

RECURSIVE Join(_)
Join(s) == IF s = <<>> THEN "" ELSE Head(s) \o Join(Tail(s))

\* os.path.join(DATA_DIR, file.filename)
FilePath(filename) == DATA_DIR \o "/" \o Join(filename)

\* RecursiveCharacterTextSplitter(chunk_size, chunk_overlap) on a text of
\* n characters: windows of chunk_size characters, each starting
\* chunk_size - chunk_overlap after the one before, the last one ending
\* with the text.  An empty text yields no chunk.
RECURSIVE SplitFrom(_, _)
SplitFrom(start, n) ==
    IF n = 0 THEN <<>>
    ELSE IF start + chunk_size >= n
         THEN << [from |-> start, to |-> n] >>
         ELSE << [from |-> start, to |-> start + chunk_size] >>
              \o SplitFrom(start + chunk_size - chunk_overlap, n)

SplitText(n) == SplitFrom(0, n)

\* PyPDFLoader(file_path).load() followed by split_documents: one document
\* per page, metadata source = the path and page = the page index from 0,
\* every chunk carrying the metadata of its page.
RECURSIVE PageSplits(_, _, _)
PageSplits(path, body, p) ==
    IF p > Len(body.pages) THEN <<>>
    ELSE [i \in 1..Len(SplitText(body.pages[p])) |->
             [page_content |-> SplitText(body.pages[p])[i],
              vec |-> body.vec,
              metadata |-> [source |-> path, page |-> p - 1]]]
         \o PageSplits(path, body, p + 1)

PdfSplits(path, body) == PageSplits(path, body, 1)

\* Fault: another spelling of the source marker.
TextMetadataOther == [source |-> "user_input"]

\* The metadata ingest_text gives its single document.
TextMetadata == [source |-> USER_INPUT]

\* Document(page_content=text, metadata={"source": "User Input"}) split.
TextSplits(text) ==
    [i \in 1..Len(SplitText(text.len)) |->
        [page_content |-> SplitText(text.len)[i],
         vec |-> text.vec,
         metadata |-> TextMetadata]]

\* Fault: the number of documents that gave chunks, len(docs), is returned.
IngestResultDocs(splits) ==
    Cardinality({ splits[i].metadata : i \in DOMAIN splits })

\* len(splits), the value both ingest functions return.
IngestResult(splits) == Len(splits)

\* The record add_documents stores for a chunk: the chunk plus the id the
\* datastore gives it (its position) and the request that inserted it.
Stored(chunk, id, r) ==
    [id |-> id, page_content |-> chunk.page_content, vec |-> chunk.vec,
     metadata |-> chunk.metadata, by |-> r]

\* dict.get(key, default)
Get(md, key, default) == IF key \in DOMAIN md THEN md[key] ELSE default

\* Fault: metadata.get('page') without the default.
FormatSourceNoDefault(doc) ==
    Get(doc.metadata, "source", "Unknown")
        \o " (Page "
        \o (IF "page" \in DOMAIN doc.metadata
            THEN ToString(doc.metadata.page) ELSE "None")
        \o ")"

\* f"{doc.metadata.get('source', 'Unknown')} (Page {doc.metadata.get('page', 0)})"
FormatSource(doc) ==
    Get(doc.metadata, "source", "Unknown")
        \o " (Page " \o ToString(Get(doc.metadata, "page", 0)) \o ")"

\* sources = [FormatSource(doc) for doc in retrieved_docs]
Sources(docs) == [i \in 1..Len(docs) |-> FormatSource(docs[i])]

\* retriever.invoke(query) with search_type "similarity" and k = K: one
\* similarity search over the collection as it is now.  The result holds
\* the min(K, count) records nearest to the query, nearest first, and of
\* equally distant records the one stored first.  The same query over the
\* same contents gives the same result.
Dist(rec, q) == Abs(rec.vec - q.vec)

Before(x, y, q) ==
    \/ Dist(x, q) < Dist(y, q)
    \/ Dist(x, q) = Dist(y, q) /\ x.id < y.id

Rank(coll, q, i) ==
    1 + Cardinality({ j \in 1..Len(coll) : Before(coll[j], coll[i], q) })

Retrieve(coll, q) ==
    [n \in 1..Min(K, Len(coll)) |->
        coll[CHOOSE i \in 1..Len(coll) : Rank(coll, q, i) = n]]

\* The paths a request can name in the upload directory, and the value of a
\* path that holds no file.
Paths == { FilePath(f) : f \in FileNames }
Absent == [valid |-> FALSE, pages |-> <<>>, vec |-> -1]

\* os.path.exists(file_path)
Exists(path) == files[path] # Absent

\* HTTPException detail / response text
UploadDetail(e) == "Upload failed: " \o e
TextDetail(e) == "Text upload failed: " \o e

----------------------------------------------------------------------------
(* State *)

\* A record stored in the collection by something other than this service:
\* nothing enforces that a stored record carries source or page.
Legacy ==
    [id |-> 1, page_content |-> [from |-> 0, to |-> 10], vec |-> 2,
     metadata |-> [origin |-> "import"], by |-> 0]

\* What an earlier run of the service left in the collection: the chunks of
\* one uploaded PDF, after the imported record.
Prior ==
    <<Legacy>> \o
    [i \in 1..3 |->
        [id |-> i + 1,
         page_content |-> [from |-> (i - 1) * (chunk_size - chunk_overlap),
                           to |-> Min(1900, (i - 1) * (chunk_size - chunk_overlap)
                                            + chunk_size)],
         vec |-> 1,
         metadata |-> [source |-> "data/a.pdf", page |-> 1],
         by |-> 0]]

NoReq ==
    [kind |-> "none", pc |-> "none",
     filename |-> <<>>, body |-> NoBody,
     text |-> [len |-> 0, vec |-> 0],
     query |-> NoQuery, use_rag |-> FALSE,
     splits |-> <<>>, next |-> 1,
     retrieved |-> <<>>, context |-> <<>>,
     status |-> 0, detail |-> "", chunks_added |-> -1,
     answer |-> "", sources |-> <<>>,
     \* history of the request, for the properties
     wrote |-> FALSE, ingest_called |-> FALSE, retrievals |-> 0,
     stored_at_retrieval |-> -1, count_before |-> -1, count_delta |-> 0,
     file_left |-> FALSE, err |-> "", after_text |-> FALSE]

Init ==
    /\ mongo_uri \in BOOLEAN
    /\ files = [p \in Paths |-> Absent]
    /\ collection \in {<<>>, <<Legacy>>, Prior}
    /\ req = [r \in Reqs |-> NoReq]
    /\ nreq = 0
    /\ ui = [pc |-> "idle", req |-> 0, turns |-> 0,
             query |-> NoQuery, use_rag |-> FALSE]
    /\ messages = <<>>

\* The response of request r: the handler returns or raises HTTPException.
\* The handler's locals go away; count_delta records by how much the
\* collection count changed between the request's arrival and its response.
Respond(r, status, fields) ==
    req' = [req EXCEPT ![r] =
               [k \in DOMAIN req[r] |->
                   IF k = "pc" THEN "done"
                   ELSE IF k = "status" THEN status
                   ELSE IF k = "count_delta"
                        THEN Len(collection) - req[r].count_before
                   ELSE IF k \in {"splits", "next", "count_before", "err"}
                        THEN NoReq[k]
                   ELSE IF k \in DOMAIN fields THEN fields[k]
                   ELSE req[r][k]]]

Step(r, fields) ==
    req' = [req EXCEPT ![r] =
               [k \in DOMAIN req[r] |->
                   IF k \in DOMAIN fields THEN fields[k] ELSE req[r][k]]]


----------------------------------------------------------------------------
(* POST /upload *)

\* A client posts a file.
ReceiveUpload ==
    /\ nreq < MaxReq
    /\ \E u \in Uploads :
          /\ nreq' = nreq + 1
          /\ req' = [req EXCEPT ![nreq + 1] =
                        [NoReq EXCEPT !.kind = "upload", !.pc = "check",
                                      !.filename = u[1], !.body = u[2],
                                      !.count_before = Len(collection)]]
    /\ UNCHANGED <<mongo_uri, files, collection, ui, messages>>

\* Fault: the file is saved before the extension is looked at.
UploadCheckLate(r) ==
    /\ req[r].kind = "upload" /\ req[r].pc = "check"
    /\ files' = [files EXCEPT ![FilePath(req[r].filename)] = req[r].body]
    /\ IF ~EndsWith(req[r].filename, PDF_SUFFIX)
       THEN Respond(r, 400, [detail |-> "Only PDF files are allowed",
                             wrote |-> TRUE])
       ELSE Step(r, [pc |-> "load", wrote |-> TRUE])
    /\ UNCHANGED <<mongo_uri, collection, nreq, ui, messages>>

\* if not file.filename.endswith(".pdf"): raise HTTPException(400)
UploadCheck(r) ==
    /\ req[r].kind = "upload" /\ req[r].pc = "check"
    /\ IF ~EndsWith(req[r].filename, PDF_SUFFIX)
       THEN Respond(r, 400, [detail |-> "Only PDF files are allowed"])
       ELSE Step(r, [pc |-> "save"])
    /\ UNCHANGED <<mongo_uri, files, collection, nreq, ui, messages>>

\* with open(file_path, "wb") as buffer: shutil.copyfileobj(file.file, buffer)
\* open creates or truncates the file; the copy then completes.
UploadSave(r) ==
    /\ req[r].kind = "upload" /\ req[r].pc = "save"
    /\ files' = [files EXCEPT ![FilePath(req[r].filename)] = req[r].body]
    /\ Step(r, [pc |-> "load", wrote |-> TRUE])
    /\ UNCHANGED <<mongo_uri, collection, nreq, ui, messages>>

\* open fails (nothing is created), or the copy fails after open has
\* created the file (a truncated file stays): control goes to the except
\* clause either way.
UploadSaveFail(r) ==
    /\ req[r].kind = "upload" /\ req[r].pc = "save"
    /\ \E created \in BOOLEAN :
          /\ files' = IF created
                      THEN [files EXCEPT ![FilePath(req[r].filename)] = NoBody]
                      ELSE files
          /\ Step(r, [pc |-> "exists", wrote |-> created, err |-> "OSError"])
    /\ UNCHANGED <<mongo_uri, collection, nreq, ui, messages>>

\* ingest_pdf up to add_documents: the loader reads whatever the path holds
\* now, the splitter cuts it, get_vector_collection reads MONGO_URI.
IngestPdfLoad(r) ==
    /\ req[r].kind = "upload" /\ req[r].pc = "load"
    /\ LET path == FilePath(req[r].filename) IN
       IF ~files[path].valid
       THEN Step(r, [pc |-> "exists", ingest_called |-> TRUE,
                     err |-> "PdfReadError"])
       ELSE IF ~mongo_uri
       THEN Step(r, [pc |-> "exists", ingest_called |-> TRUE,
                     err |-> "ValueError"])
       ELSE Step(r, [pc |-> "add", ingest_called |-> TRUE,
                     splits |-> PdfSplits(path, files[path])])
    /\ UNCHANGED <<mongo_uri, files, collection, nreq, ui, messages>>

\* except Exception: if os.path.exists(file_path): ...
UploadExceptExists(r) ==
    /\ req[r].kind = "upload" /\ req[r].pc = "exists"
    /\ IF Exists(FilePath(req[r].filename))
       THEN Step(r, [pc |-> "remove"])
       ELSE Step(r, [pc |-> "raise", detail |-> UploadDetail(req[r].err)])
    /\ UNCHANGED <<mongo_uri, files, collection, nreq, ui, messages>>

\* ... os.remove(file_path).  If the file is gone by now os.remove raises
\* out of the except clause, which the server answers with a 500 too.
UploadExceptRemove(r) ==
    /\ req[r].kind = "upload" /\ req[r].pc = "remove"
    /\ LET path == FilePath(req[r].filename) IN
          /\ files' = [files EXCEPT ![path] = Absent]
          /\ Step(r, [pc |-> "raise",
                      detail |-> IF Exists(path) THEN UploadDetail(req[r].err)
                                 ELSE "Internal Server Error"])
    /\ UNCHANGED <<mongo_uri, collection, nreq, ui, messages>>

\* traceback.format_exc(); print(...); raise HTTPException(500): the
\* request ends.  file_left records whether the path holds a file then.
UploadRaise(r) ==
    /\ req[r].kind = "upload" /\ req[r].pc = "raise"
    /\ Respond(r, 500, [file_left |-> Exists(FilePath(req[r].filename))])
    /\ UNCHANGED <<mongo_uri, files, collection, nreq, ui, messages>>

----------------------------------------------------------------------------
(* POST /upload/text *)

ReceiveText ==
    /\ nreq < MaxReq
    /\ \E t \in Texts :
          /\ nreq' = nreq + 1
          /\ req' = [req EXCEPT ![nreq + 1] =
                        [NoReq EXCEPT !.kind = "text", !.pc = "split",
                                      !.text = t,
                                      !.count_before = Len(collection)]]
    /\ UNCHANGED <<mongo_uri, files, collection, ui, messages>>

\* ingest_text up to add_documents.
IngestTextSplit(r) ==
    /\ req[r].kind = "text" /\ req[r].pc = "split"
    /\ IF ~mongo_uri
       THEN Respond(r, 500, [ingest_called |-> TRUE,
                             detail |-> TextDetail("ValueError")])
       ELSE Step(r, [pc |-> "add", ingest_called |-> TRUE,
                     splits |-> TextSplits(req[r].text)])
    /\ UNCHANGED <<mongo_uri, files, collection, nreq, ui, messages>>

----------------------------------------------------------------------------
(* vector_store.add_documents(splits), for both ingest functions *)

\* The next chunk is embedded and inserted.
AddDocumentsInsert(r) ==
    /\ req[r].pc = "add"
    /\ req[r].next <= Len(req[r].splits)
    /\ collection' = Append(collection,
                            Stored(req[r].splits[req[r].next],
                                   Len(collection) + 1, r))
    /\ Step(r, [next |-> req[r].next + 1])
    /\ UNCHANGED <<mongo_uri, files, nreq, ui, messages>>

\* Fault: a failed add_documents deletes what the request had inserted.
AddDocumentsFailRollback(r) ==
    /\ req[r].pc = "add"
    /\ req[r].next <= Len(req[r].splits)
    /\ collection' = SelectSeq(collection, LAMBDA x : x.by # r)
    /\ IF req[r].kind = "upload"
       THEN Step(r, [pc |-> "exists", err |-> "ProviderError"])
       ELSE Respond(r, 500, [detail |-> TextDetail("ProviderError")])
    /\ UNCHANGED <<mongo_uri, files, nreq, ui, messages>>

\* The embedding call or the insert raises; what was inserted stays.
AddDocumentsFail(r) ==
    /\ req[r].pc = "add"
    /\ req[r].next <= Len(req[r].splits)
    /\ IF req[r].kind = "upload"
       THEN Step(r, [pc |-> "exists", err |-> "ProviderError"])
       ELSE Respond(r, 500, [detail |-> TextDetail("ProviderError")])
    /\ UNCHANGED <<mongo_uri, files, collection, nreq, ui, messages>>

\* return len(splits), and the handler's 200 response.
IngestReturn(r) ==
    /\ req[r].pc = "add"
    /\ req[r].next > Len(req[r].splits)
    /\ Respond(r, 200,
          [chunks_added |-> IngestResult(req[r].splits),
           file_left |-> req[r].kind = "upload"
                         /\ Exists(FilePath(req[r].filename))])
    /\ UNCHANGED <<mongo_uri, files, collection, nreq, ui, messages>>

----------------------------------------------------------------------------
(* POST /chat: get_answer(query, use_rag) *)

\* A ChatRequest as it arrives.  after_text records whether a text whose
\* chunks have the query's embedding was ingested successfully before.
NewChat(q, rag) ==
    [NoReq EXCEPT !.kind = "chat", !.pc = "chat",
                  !.query = q, !.use_rag = rag,
                  !.count_before = Len(collection),
                  !.after_text =
                      \E t \in Reqs :
                          /\ req[t].kind = "text" /\ req[t].pc = "done"
                          /\ req[t].status = 200 /\ req[t].chunks_added > 0
                          /\ req[t].text.vec = q.vec]

\* A client posts a query.
ReceiveChat ==
    /\ nreq < MaxReq
    /\ \E q \in Queries, rag \in BOOLEAN :
          /\ nreq' = nreq + 1
          /\ req' = [req EXCEPT ![nreq + 1] = NewChat(q, rag)]
    /\ UNCHANGED <<mongo_uri, files, collection, ui, messages>>

\* Fault: the use_rag flag is ignored.
UsesRetrievalAlways(r) == TRUE

\* What get_answer does first: the else branch (no retrieval) when use_rag
\* is false, the RAG pipeline when it is true.
UsesRetrieval(r) == req[r].use_rag

\* use_rag false: llm.invoke(query).content, returned with [].
ChatNoRag(r) ==
    /\ req[r].kind = "chat" /\ req[r].pc = "chat"
    /\ ~UsesRetrieval(r)
    /\ \E ok \in BOOLEAN :
          IF ok
          THEN Respond(r, 200, [answer |-> "answer", sources |-> <<>>])
          ELSE Respond(r, 500, [detail |-> "ProviderError"])
    /\ UNCHANGED <<mongo_uri, files, collection, nreq, ui, messages>>

\* use_rag true: get_vector_collection, then the standalone
\* retriever.invoke(query) whose documents give the citations.
ChatRetrieve(r) ==
    /\ req[r].kind = "chat" /\ req[r].pc = "chat"
    /\ UsesRetrieval(r)
    /\ IF ~mongo_uri
       THEN Respond(r, 500, [detail |-> "ValueError"])
       ELSE Step(r, [pc |-> "chain",
                     retrieved |-> Retrieve(collection, req[r].query),
                     retrievals |-> req[r].retrievals + 1,
                     stored_at_retrieval |-> Len(collection)])
    /\ UNCHANGED <<mongo_uri, files, collection, nreq, ui, messages>>

\* The vector search raises.
ChatRetrieveFail(r) ==
    /\ req[r].kind = "chat" /\ req[r].pc = "chat"
    /\ UsesRetrieval(r)
    /\ mongo_uri
    /\ Respond(r, 500, [detail |-> "ProviderError"])
    /\ UNCHANGED <<mongo_uri, files, collection, nreq, ui, messages>>

\* rag_chain.invoke(query): the chain's own retriever call gives the
\* context, the model answers, and the citations are formatted from the
\* documents of the standalone call.
ChatChain(r) ==
    /\ req[r].kind = "chat" /\ req[r].pc = "chain"
    /\ Respond(r, 200, [context |-> Retrieve(collection, req[r].query),
                        retrievals |-> req[r].retrievals + 1,
                        answer |-> "answer",
                        sources |-> Sources(req[r].retrieved)])
    /\ UNCHANGED <<mongo_uri, files, collection, nreq, ui, messages>>

\* The chain's vector search or the completion call raises.
ChatChainFail(r) ==
    /\ req[r].kind = "chat" /\ req[r].pc = "chain"
    /\ Respond(r, 500, [detail |-> "ProviderError"])
    /\ UNCHANGED <<mongo_uri, files, collection, nreq, ui, messages>>

----------------------------------------------------------------------------
(* The chat client: one session of ui.py *)

\* st.chat_input returns a prompt: the user message is appended.
UISubmit ==
    /\ ui.pc = "idle"
    /\ ui.turns < MaxTurns
    /\ \E q \in Queries, rag \in BOOLEAN :
          /\ ui' = [ui EXCEPT !.pc = "post", !.turns = @ + 1,
                              !.query = q, !.use_rag = rag]
          /\ messages' = Append(messages,
                [role |-> "user", content |-> q.text, sources |-> <<>>])
    /\ UNCHANGED <<mongo_uri, files, collection, req, nreq>>

\* requests.post(f"{API_URL}/chat", json=payload) reaches the server.
UIPost ==
    /\ ui.pc = "post"
    /\ nreq < MaxReq
    /\ nreq' = nreq + 1
    /\ req' = [req EXCEPT ![nreq + 1] = NewChat(ui.query, ui.use_rag)]
    /\ ui' = [ui EXCEPT !.pc = "wait", !.req = nreq + 1]
    /\ UNCHANGED <<mongo_uri, files, collection, messages>>

\* The assistant entry ui.py appends at the end of a turn.
AssistantEntry(content, sources) ==
    [role |-> "assistant", content |-> content, sources |-> sources]

\* requests.post raises: full_response = f"Connection Error: {e}".
UIConnectionError ==
    /\ ui.pc = "post"
    /\ messages' = Append(messages,
          AssistantEntry("Connection Error: " \o "ConnectionError", <<>>))
    /\ ui' = [ui EXCEPT !.pc = "idle"]
    /\ UNCHANGED <<mongo_uri, files, collection, req, nreq>>

\* Fault: the assistant entry is appended only in the 200 branch.
UIReceiveOnlyOk ==
    /\ ui.pc = "wait"
    /\ req[ui.req].pc = "done"
    /\ messages' =
          IF req[ui.req].status = 200
          THEN Append(messages,
                      AssistantEntry(req[ui.req].answer, req[ui.req].sources))
          ELSE messages
    /\ ui' = [ui EXCEPT !.pc = "idle"]
    /\ UNCHANGED <<mongo_uri, files, collection, req, nreq>>

\* The response arrives: the answer and its sources on 200, the inline
\* error text f"Error: {response.text}" otherwise.
UIReceive ==
    /\ ui.pc = "wait"
    /\ req[ui.req].pc = "done"
    /\ messages' = Append(messages,
          IF req[ui.req].status = 200
          THEN AssistantEntry(req[ui.req].answer, req[ui.req].sources)
          ELSE AssistantEntry("Error: " \o req[ui.req].detail, <<>>))
    /\ ui' = [ui EXCEPT !.pc = "idle"]
    /\ UNCHANGED <<mongo_uri, files, collection, req, nreq>>

----------------------------------------------------------------------------

\* A step of the handler of request r.
Handle(r) ==
    \/ UploadCheck(r)
    \/ UploadSave(r)
    \/ UploadSaveFail(r)
    \/ IngestPdfLoad(r)
    \/ UploadExceptExists(r)
    \/ UploadExceptRemove(r)
    \/ UploadRaise(r)
    \/ IngestTextSplit(r)
    \/ AddDocumentsInsert(r)
    \/ AddDocumentsFail(r)
    \/ IngestReturn(r)
    \/ ChatNoRag(r)
    \/ ChatRetrieve(r)
    \/ ChatRetrieveFail(r)
    \/ ChatChain(r)
    \/ ChatChainFail(r)

\* The service and its clients.
Next ==
    \/ ReceiveUpload
    \/ ReceiveText
    \/ ReceiveChat
    \/ \E r \in Reqs : Handle(r)

Spec == Init /\ [][Next]_vars

\* One session of the chat client against the service, with text ingestion
\* going on beside it.
NextUI ==
    \/ UISubmit
    \/ UIPost
    \/ UIConnectionError
    \/ UIReceive
    \/ ReceiveText
    \/ \E r \in Reqs :
          \/ IngestTextSplit(r)
          \/ AddDocumentsInsert(r)
          \/ AddDocumentsFail(r)
          \/ IngestReturn(r)
          \/ ChatNoRag(r)
          \/ ChatRetrieve(r)
          \/ ChatRetrieveFail(r)
          \/ ChatChain(r)
          \/ ChatChainFail(r)

SpecUI == Init /\ [][NextUI]_vars
----------------------------------------------------------------------------
(* Properties *)

Done(r) == req[r].pc = "done"

\* The records request r has in the collection.
PersistedBy(r) == { i \in DOMAIN collection : collection[i].by = r }

Range(f) == { f[i] : i \in DOMAIN f }

IsPrefix(s, t) == Len(s) <= Len(t) /\ SubSeq(t, 1, Len(s)) = s

\* C1: an /upload whose filename does not end in ".pdf" is answered 400, and
\* it writes no file, never calls ingest_pdf and stores no record.
C1_NonPdfRejected ==
    \A r \in Reqs :
        (req[r].kind = "upload" /\ ~EndsWith(req[r].filename, PDF_SUFFIX)) =>
            /\ Done(r) => req[r].status = 400
            /\ ~req[r].wrote
            /\ ~Exists(FilePath(req[r].filename))
            /\ ~req[r].ingest_called
            /\ PersistedBy(r) = {}

C1_Witness ==
    \E r \in Reqs :
        /\ req[r].kind = "upload" /\ Done(r) /\ req[r].status = 400
        /\ req[r].filename = <<"p", "d", "f">>

\* C2 as stated: the chunks_added of a successful ingestion equals the
\* collection count at the response minus the count at the request's arrival.
C2_CountDelta ==
    \A r \in Reqs :
        (req[r].kind \in {"upload", "text"} /\ Done(r) /\ req[r].status = 200)
            => req[r].chunks_added = req[r].count_delta

\* C2 (amended): the chunks_added of a successful ingestion equals the number
\* of records that request itself inserted into the collection; the count
\* delta over the request is at least that.
C2_ChunksPersisted ==
    \A r \in Reqs :
        (req[r].kind \in {"upload", "text"} /\ Done(r) /\ req[r].status = 200)
            => /\ req[r].chunks_added = Cardinality(PersistedBy(r))
               /\ req[r].count_delta >= req[r].chunks_added

C2_Witness ==
    \E r \in Reqs :
        /\ req[r].kind = "upload" /\ Done(r) /\ req[r].status = 200
        /\ req[r].chunks_added = 3
        /\ req[r].count_delta > 3

\* C3: a /chat with use_rag = false performs no retrieval, and its 200
\* response has an empty sources list, whatever the collection holds.
C3_NoRagNoSources ==
    \A r \in Reqs :
        (req[r].kind = "chat" /\ ~req[r].use_rag) =>
            /\ req[r].retrievals = 0
            /\ (Done(r) /\ req[r].status = 200) => req[r].sources = <<>>

C3_Witness ==
    \E r \in Reqs :
        /\ req[r].kind = "chat" /\ ~req[r].use_rag
        /\ Done(r) /\ req[r].status = 200
        /\ Len(collection) >= 3

\* The citation the specification gives a retrieved record.
ExpectedCitation(doc) ==
    (IF "source" \in DOMAIN doc.metadata THEN doc.metadata.source ELSE "Unknown")
    \o " (Page "
    \o (IF "page" \in DOMAIN doc.metadata THEN ToString(doc.metadata.page) ELSE "0")
    \o ")"

\* C4: the 200 response of a /chat with use_rag = true carries
\* min(3, number of records stored when the citation retrieval ran) sources,
\* one per retrieved record, nearest to the query first, each
\* "<source> (Page <page>)" with "Unknown" and 0 for an absent source or page.
C4_RagSources ==
    \A r \in Reqs :
        (req[r].kind = "chat" /\ req[r].use_rag /\ Done(r) /\ req[r].status = 200)
            => /\ Len(req[r].sources) <= 3
               /\ Len(req[r].sources) = Min(3, req[r].stored_at_retrieval)
               /\ Len(req[r].sources) = Len(req[r].retrieved)
               /\ \A i \in DOMAIN req[r].sources :
                     req[r].sources[i] = ExpectedCitation(req[r].retrieved[i])
               /\ \A i, j \in DOMAIN req[r].retrieved :
                     i < j => Dist(req[r].retrieved[i], req[r].query)
                                <= Dist(req[r].retrieved[j], req[r].query)

C4_Witness ==
    \E r \in Reqs :
        /\ req[r].kind = "chat" /\ req[r].use_rag
        /\ Done(r) /\ req[r].status = 200
        /\ req[r].sources =
              <<"Unknown (Page 0)", "data/a.pdf (Page 1)", "data/a.pdf (Page 1)">>

\* C5: when an /upload ends with a 500 response, the upload directory holds
\* no file of that request's filename.
C5_NoFileAfter500 ==
    \A r \in Reqs :
        (req[r].kind = "upload" /\ Done(r) /\ req[r].status = 500)
            => ~req[r].file_left

\* C6: when MONGO_URI is absent no request is ever answered.
C6_NoServiceWithoutUri ==
    ~mongo_uri => \A r \in Reqs : req[r].status = 0

\* C7: a step never removes or changes a stored record: the collection after
\* the step begins with the collection before it.  This covers a failed
\* ingestion (nothing is rolled back) and every step of /chat.
C7_RecordsKept ==
    [][IsPrefix(collection, collection')]_vars

C7_Witness ==
    \E r \in Reqs :
        /\ req[r].kind \in {"upload", "text"}
        /\ Done(r) /\ req[r].status = 500
        /\ PersistedBy(r) # {}

\* The citation of a chunk ingested through /upload/text.
MARKER == "User Input (Page 0)"

\* The stored records from other sources that are as near to the query of
\* request r as a chunk can be.
NearestOthers(r) ==
    { i \in DOMAIN collection :
        /\ Dist(collection[i], req[r].query) = 0
        /\ ~("source" \in DOMAIN collection[i].metadata
             /\ collection[i].metadata.source = USER_INPUT) }

\* A /chat with use_rag = true answered 200 whose query has the embedding of
\* a text that was ingested successfully before the query arrived.
AnsweredByText(r) ==
    /\ req[r].kind = "chat" /\ req[r].use_rag
    /\ Done(r) /\ req[r].status = 200
    /\ req[r].after_text

\* C8 as stated: such a /chat returns the manual-input marker among its
\* sources, whatever else the collection holds.
C8_RoundTrip ==
    \A r \in Reqs :
        AnsweredByText(r) => MARKER \in Range(req[r].sources)

\* C8 (amended): such a /chat returns the manual-input marker among its
\* sources provided fewer than three records from other sources are stored
\* that are as near to the query as the text's chunks.
C8_RoundTripWhenRanked ==
    \A r \in Reqs :
        (AnsweredByText(r) /\ Cardinality(NearestOthers(r)) < 3)
            => /\ req[r].sources # <<>>
               /\ MARKER \in Range(req[r].sources)

C8_Witness ==
    \E r \in Reqs :
        /\ AnsweredByText(r)
        /\ Len(req[r].sources) = 2
        /\ req[r].sources[1] = MARKER
        /\ req[r].sources[2] = "Unknown (Page 0)"

\* The assistant entry that ends the turn in progress when the request
\* failed: the inline error text, with no sources.
ErrorEntry ==
    [role |-> "assistant",
     content |-> IF ui.pc = "post" THEN "Connection Error: ConnectionError"
                 ELSE "Error: " \o req[ui.req].detail,
     sources |-> <<>>]

TurnFailed ==
    \/ ui.pc = "post"
    \/ ui.pc = "wait" /\ req[ui.req].status # 200

\* C9: a step of the chat client leaves the log alone or appends one entry
\* to it, a user entry after an assistant entry (or first) and an assistant
\* entry after a user entry; the assistant entry of a turn whose request
\* failed is the inline error text with an empty sources list.
C9_LogAppendOnly ==
    [][ \/ messages' = messages
        \/ /\ Len(messages') = Len(messages) + 1
           /\ IsPrefix(messages, messages')
           /\ messages'[Len(messages')].role =
                 (IF Len(messages) % 2 = 0 THEN "user" ELSE "assistant")
           /\ (Len(messages) % 2 = 1 /\ TurnFailed)
                 => messages'[Len(messages')] = ErrorEntry ]_vars

C9_Witness ==
    /\ Len(messages) = 4
    /\ messages[2].content = "Error: ProviderError"
    /\ messages[2].sources = <<>>
    /\ messages[4].role = "assistant"
    /\ messages[4].sources # <<>>

\* C10: in a /chat with use_rag = true answered 200, the documents of the
\* citations are the documents of the context, in the same order.
C10_CitationsMatchContext ==
    \A r \in Reqs :
        (req[r].kind = "chat" /\ req[r].use_rag /\ Done(r) /\ req[r].status = 200)
            => req[r].context = req[r].retrieved


====
